---- MODULE Spec2Model ----
(***************************************************************************)
(* Model of the check_ssl_certificate monitoring plugin (the revision      *)
(* with StartTLS support) together with the plugin output helper and the   *)
(* performance data encoder it reports through.                            *)
(*                                                                         *)
(* Go strings that the program inspects (host names, certificate subject,  *)
(* protocol lines) are sequences of one-character strings; messages are    *)
(* sequences of strings, so that fmt.Sprintf is concatenation.             *)
(***************************************************************************)
EXTENDS Integers, Sequences, FiniteSets, TLC

\* ------------------------------------------------------------------------
\* Bounds of the model
\* ------------------------------------------------------------------------

\* Largest threshold value offered for -W / -C.
MaxThreshold == 2
\* Largest number of entries in --additional-names.
MaxExtra == 1
\* Largest number of DNS names in the certificate.
MaxSAN == 2
\* Whole days around "now" offered for NotAfter.
MaxDays == 2
\* Resolution of time.Duration in the model: ticks per second (Go counts
\* nanoseconds; any resolution finer than one second shows the rounding).
TicksPerSecond == 2

\* ------------------------------------------------------------------------
\* Values
\* ------------------------------------------------------------------------

\* plugin.Status
OK == 0
WARNING == 1
CRITICAL == 2
UNKNOWN == 3

\* Status.String()
StatusString(s) == <<"OK", "WARNING", "ERROR", "UNKNOWN">>[s + 1]

\* time.Second, time.Hour as tick counts
Second == TicksPerSecond
Hour == 3600 * Second
Day == 24 * Hour

\* Go integer division: truncates toward zero.
GoDiv(a, b) == IF a >= 0 THEN a \div b ELSE -((-a) \div b)

\* strings.ToLower on one character of the model's alphabet
LowerChar(c) ==
    CASE c = "A" -> "a"
      [] c = "B" -> "b"
      [] c = "C" -> "c"
      [] c = "N" -> "n"
      [] c = "O" -> "o"
      [] c = "X" -> "x"
      [] OTHER -> c

\* strings.ToLower
ToLower(s) == [i \in DOMAIN s |-> LowerChar(s[i])]

\* strings.HasPrefix
HasPrefix(s, prefix) ==
    /\ Len(prefix) <= Len(s)
    /\ SubSeq(s, 1, Len(prefix)) = prefix

\* All sequences over S of length at most n
SeqUpTo(S, n) == UNION {[1..k -> S] : k \in 0..n}

\* ------------------------------------------------------------------------
\* Inputs
\* ------------------------------------------------------------------------

\* DNS names offered on the command line and in certificates
Names == { <<"a", ".", "x">>, <<"A", ".", "x">>, <<"b", ".", "x">> }

\* -H: a name in either letter case, or the empty default
HostNames == { <<"a", ".", "x">>, <<"A", ".", "x">>, <<>> }

\* -P: the default -1, a usable port, and the first value outside each end
\* of the valid range
Ports == {-1, 0, 443, 65536}

\* -W, -C: the default -1, another negative value, zero, and positive day counts
Thresholds == -2 .. MaxThreshold

\* -s: the supported protocols and an unsupported one
StartTLSNames == {"", "smtp", "sieve", "imap"}

\* tls handshake / dial / read failures reported by the Go runtime
NetErrors == { <<"dial tcp: connection refused">>, <<"EOF">>,
               <<"remote error: tls: handshake failure">> }

\* certificate.Subject.String() of certificates without DNS names
Subjects ==
    UNION { { <<"C", "N", "=">> \o n \o <<",", "O", "=", "x">>,
              <<"C", "N", "=">> \o n,
              <<"O", "=", "x", ",", "C", "N", "=">> \o n } : n \in {<<"a", ".", "x">>, <<"b", ".", "x">>} }
    \cup { <<"C", "N", "=">> \o <<"A", ".", "X">> \o <<",", "O", "=", "x">> }

\* A Go error value: nil, or an error with its text
NoError == [nil |-> TRUE, text |-> <<>>]
Error(e) == [nil |-> FALSE, text |-> e]

\* check_zone_serial: the two servers, by the name runCheck gives them
Servers == {"checked", "reference"}

\* The zero queryResponse: no message, no round-trip time, no error
NoResponse == [nil |-> TRUE, answer |-> <<>>, rtt |-> 0, err |-> NoError]

\* x509.Certificate: the fields the check reads
Cert(names, subject) == [nil |-> FALSE, DNSNames |-> names, Subject |-> subject]
NilCertificate == [nil |-> TRUE, DNSNames |-> <<>>, Subject |-> <<>>]

\* Certificates a server may present: with DNS names (the subject is then
\* never read), or without any
Certificates ==
    { Cert(d, <<"C", "N", "=", "s">>) : d \in SeqUpTo(Names, MaxSAN) \ {<<>>} }
    \cup { Cert(<<>>, s) : s \in Subjects }

\* NotAfter.Sub(time.Now()): whole days plus a residual on either side of
\* the second and of the day
Residuals == {0, 1, Second, Day - 1}
TimeLefts == { q * Day + r : q \in (-MaxDays) .. MaxDays, r \in Residuals }

\* ------------------------------------------------------------------------
\* State
\* ------------------------------------------------------------------------

VARIABLES
    pc,            \* position of main()
    hostname, port, warn, crit, ignoreCnOnly, extraNames, startTLS,
    plugin,        \* program.plugin: the plugin.Plugin
    calls,         \* methods of program.plugin called so far, in call order
    certificate,   \* program.certificate
    err,           \* runCheck: the error getCertificate returned
    dials,         \* connections opened (net.Dial / tls.Dial calls)
    sent,          \* commands written to the connection
    received,      \* what each read of the StartTLS preamble ended on
    handshakes,    \* TLS handshakes started
    panicking,     \* main() is unwinding from a run-time panic
    evaluated,     \* checkCertificateExpiry has been called
    timeLeft, tlDays,                        \* locals of runCheck
    doneRan,       \* Plugin.Done has run
    output,        \* lines printed by Done
    exitCode,      \* process exit code, -1 while running
    zone, rsHostname, rsPort,    \* check_zone_serial: its other flags
    task,          \* position of each queryZoneSOA goroutine
    exchanged,     \* in, rtt, err of each queryZoneSOA goroutine
    iLoop,         \* queryServers: the loop counter i
    checkResponse, refResponse,  \* queryServers: the responses received
    arrived                      \* queryServers: the channels received from, in order

flagVars == <<hostname, port, warn, crit, ignoreCnOnly, extraNames, startTLS>>
pluginVars == <<plugin, calls>>
netVars == <<certificate, err, dials, sent, received, handshakes, panicking>>
expiryVars == <<evaluated, timeLeft, tlDays>>
exitVars == <<doneRan, output, exitCode>>
zoneVars == <<zone, rsHostname, rsPort, task, exchanged, iLoop, checkResponse,
              refResponse, arrived>>
vars == <<pc, flagVars, pluginVars, netVars, expiryVars, exitVars, zoneVars>>

\* The fields of program.plugin
status == plugin.status
message == plugin.message
extraText == plugin.extraText
perfData == plugin.perfData

\* ------------------------------------------------------------------------
\* perfdata
\* ------------------------------------------------------------------------

UOM_NONE == 0

\* UnitOfMeasurement.String()
UnitString(u) == <<"", "s", "%", "B", "KB", "MB", "GB", "TB", "c">>[u + 1]

PDAT_WARN == 1
PDAT_CRIT == 2
PDAT_MIN == 4
PDAT_MAX == 8

\* fmt.Sprintf("%d", n) / fmt.Sprint(n)
Sprint(n) == ToString(n)

\* The zero PerfDataRange
ZeroRange == [start |-> "", end |-> "", inside |-> FALSE]

\* perfdata.PDRMax (its value check accepts every decimal integer)
PDRMax(max) == [start |-> "0", end |-> max, inside |-> FALSE]

\* PerfDataRange.String
RangeString(r) ==
    LET start == IF r.start = "" THEN "~"
                 ELSE IF r.start = "0" THEN ""
                 ELSE r.start
        inside == IF r.inside THEN "@" ELSE ""
    IN  inside \o start \o ":" \o r.end

\* perfdata.New: bits is the set of PDAT_ flags that are set
NewPerfData(label, units, value) ==
    [Label |-> label, units |-> units, bits |-> {},
     value |-> IF value = "" THEN "U" ELSE value,
     warn |-> ZeroRange, crit |-> ZeroRange, min |-> "", max |-> ""]

\* PerfData.SetWarn
SetWarn(d, r) == [d EXCEPT !.warn = r, !.bits = @ \cup {PDAT_WARN}]

\* PerfData.SetCrit
SetCrit(d, r) == [d EXCEPT !.crit = r, !.bits = @ \cup {PDAT_CRIT}]

\* strings.ReplaceAll(label, "'", "''")
RECURSIVE DoubleQuotes(_)
DoubleQuotes(l) ==
    IF l = <<>> THEN <<>>
    ELSE (IF Head(l) = "'" THEN <<"'", "'">> ELSE <<Head(l)>>) \o DoubleQuotes(Tail(l))

\* PerfData.String
PerfDataString(d) ==
    LET needsQuotes == \E i \in DOMAIN d.Label : d.Label[i] \in {" ", "'", "=", "\""}
        quote == IF needsQuotes THEN <<"'">> ELSE <<>>
    IN  quote \o DoubleQuotes(d.Label) \o quote
        \o <<"=", d.value \o UnitString(d.units), ";">>
        \o (IF PDAT_WARN \in d.bits THEN <<RangeString(d.warn)>> ELSE <<>>)
        \o <<";">>
        \o (IF PDAT_CRIT \in d.bits THEN <<RangeString(d.crit)>> ELSE <<>>)
        \o <<";">>
        \o (IF PDAT_MIN \in d.bits THEN <<d.min>> ELSE <<>>)
        \o <<";">>
        \o (IF PDAT_MAX \in d.bits THEN <<d.max>> ELSE <<>>)

\* ------------------------------------------------------------------------
\* plugin
\* ------------------------------------------------------------------------

PluginName == <<"Certificate check">>

\* New with OK as the status of a plugin whose state was never set
New_statusOK(name) ==
    [name |-> name, status |-> OK, message |-> <<"no status set">>,
     extraText |-> <<>>, perfData |-> <<>>]

\* plugin.New.  extraText is the list's content, the empty sequence for the
\* nil list; perfData is the map, a function of the labels
New(name) ==
    [name |-> name, status |-> UNKNOWN, message |-> <<"no status set">>,
     extraText |-> <<>>, perfData |-> <<>>]

\* SetState that also drops the lines added so far
SetState_clearsLines(p, s, m) ==
    [p EXCEPT !.status = s, !.message = m, !.extraText = <<>>]

\* Plugin.SetState
SetState(p, s, m) == [p EXCEPT !.status = s, !.message = m]

\* AddLine that makes the line the message
AddLine_asMessage(p, line) == [p EXCEPT !.message = line, !.extraText = Append(@, line)]

\* Plugin.AddLine
AddLine(p, line) == [p EXCEPT !.extraText = Append(@, line)]

\* AddPerfDataPanics that panics only when the very same record is added again
AddPerfDataPanics_sameRecord(p, pd) ==
    pd.Label \in DOMAIN p.perfData /\ p.perfData[pd.Label] = pd

\* Plugin.AddPerfData panics: the label is registered already
AddPerfDataPanics(p, pd) == pd.Label \in DOMAIN p.perfData

\* Plugin.AddPerfData, when it does not panic
AddPerfData(p, pd) == [p EXCEPT !.perfData = (pd.Label :> pd) @@ @]

\* Plugin.Done: the orders in which "for k := range p.perfData" may visit
\* the labels.  The iteration order of a Go map is not specified
Orders(labels) ==
    { o \in [1 .. Cardinality(labels) -> labels] :
        \A j, k \in DOMAIN o : j # k => o[j] # o[k] }

\* Plugin.Done: the performance data of the first line, the labels visited
\* in the given order
RECURSIVE JoinPerf(_, _)
JoinPerf(pd, order) ==
    IF order = <<>> THEN <<>>
    ELSE LET rest == JoinPerf(pd, Tail(order))
         IN  PerfDataString(pd[Head(order)])
             \o (IF rest = <<>> THEN <<>> ELSE <<", ">> \o rest)

\* The text Plugin.Done prints, as its lines
DoneOutput(p, order) ==
    LET first == p.name \o <<" ", StatusString(p.status), ": ">> \o p.message
                 \o (IF DOMAIN p.perfData # {}
                     THEN <<" | ">> \o JoinPerf(p.perfData, order)
                     ELSE <<>>)
    IN  <<first>> \o p.extraText

\* DoneExitCode with the codes of WARNING and CRITICAL exchanged
DoneExitCode_swapped(p) ==
    IF p.status = WARNING THEN 2 ELSE IF p.status = CRITICAL THEN 1 ELSE p.status

\* The exit code Plugin.Done passes to os.Exit
DoneExitCode(p) == p.status

\* ------------------------------------------------------------------------
\* check_ssl_certificate: helpers
\* ------------------------------------------------------------------------

\* strings.Split(s, ",")
RECURSIVE Split(_)
Split(s) ==
    IF \A i \in DOMAIN s : s[i] # ","
    THEN <<s>>
    ELSE LET k == CHOOSE i \in DOMAIN s : s[i] = "," /\ \A j \in 1 .. (i - 1) : s[j] # ","
         IN  <<SubSeq(s, 1, k - 1)>> \o Split(SubSeq(s, k + 1, Len(s)))

\* The -a argument that lists the names of l
RECURSIVE Join(_)
Join(l) ==
    IF l = <<>> THEN <<>>
    ELSE IF Len(l) = 1 THEN l[1]
    ELSE l[1] \o <<",">> \o Join(Tail(l))

\* -a: comma-separated lists of up to MaxExtra names; the empty default
NamesArgs == { Join(l) : l \in SeqUpTo(Names, MaxExtra) }

\* The keys of certGetters
certGetters == {"", "smtp", "sieve"}

\* The end of parseArguments: the list of additional names
parseNames(names) == IF names = <<>> THEN <<>> ELSE Split(names)

\* The test of checkHostName: is the name one of the certificate's DNS names
checkHostName(name) ==
    \E i \in DOMAIN certificate.DNSNames : ToLower(certificate.DNSNames[i]) = name

\* The line checkHostName adds for a name it does not find
MissingLine(name) == <<"missing DNS name ">> \o name \o <<" in certificate">>

\* The calls of checkHostName in checkNames, in order: the plugin after them
RECURSIVE checkHostNames(_, _)
checkHostNames(p, names) ==
    IF names = <<>> THEN p
    ELSE checkHostNames(IF checkHostName(Head(names)) THEN p
                        ELSE AddLine(p, MissingLine(Head(names))),
                        Tail(names))

\* The names checkNames passes to checkHostName, in call order
CheckedNames == <<hostname>> \o extraNames

\* The value of ok at the end of the loop of checkNames
NamesOk == \A i \in DOMAIN CheckedNames : checkHostName(CheckedNames[i])

\* SANlessAllowed without the test of the additional names
SANlessAllowed_flagOnly == ignoreCnOnly

\* checkSANlessCertificate: the first test, negated
SANlessAllowed == ignoreCnOnly /\ Len(extraNames) = 0

\* CNMatches without the lower-casing of the subject
CNMatches_caseSensitive ==
    HasPrefix(certificate.Subject, <<"c", "n", "=">> \o hostname \o <<",">>)

\* checkSANlessCertificate: the second test, negated
CNMatches ==
    HasPrefix(ToLower(certificate.Subject), <<"c", "n", "=">> \o hostname \o <<",">>)

\* DaysLeft without the rounding up of a started day
DaysLeft_truncated(t) == GoDiv(t, 24 * Hour)

\* DaysLeft with a full day added instead of 23h59m59s
DaysLeft_fullDay(t) == GoDiv(t + 86400 * Second, 24 * Hour)

\* runCheck: whole days left, from the time left
DaysLeft(t) == GoDiv(t + 86399 * Second, 24 * Hour)

\* checkCertificateExpiry without the test for an expired certificate
checkCertificateExpiry_noExpiredTest(days) ==
    LET text == <<"certificate will expire in ", Sprint(days), " days">>
    IN  IF crit > 0 /\ days <= crit
        THEN [state |-> CRITICAL, message |-> text \o <<" (<= ", Sprint(crit), ")">>]
        ELSE IF warn > 0 /\ days <= warn
        THEN [state |-> WARNING, message |-> text \o <<" (<= ", Sprint(warn), ")">>]
        ELSE [state |-> OK, message |-> text]

\* checkCertificateExpiry
checkCertificateExpiry(days) ==
    IF days <= 0
    THEN [state |-> CRITICAL, message |-> <<"certificate expired">>]
    ELSE LET text == <<"certificate will expire in ", Sprint(days), " days">>
         IN  IF crit > 0 /\ days <= crit
             THEN [state |-> CRITICAL, message |-> text \o <<" (<= ", Sprint(crit), ")">>]
             ELSE IF warn > 0 /\ days <= warn
             THEN [state |-> WARNING, message |-> text \o <<" (<= ", Sprint(warn), ")">>]
             ELSE [state |-> OK, message |-> text]

ValidityLabel == <<"v", "a", "l", "i", "d", "i", "t", "y">>

\* ValidityPerfData with the two thresholds exchanged
ValidityPerfData_swapped(days) ==
    LET pdat == NewPerfData(ValidityLabel, UOM_NONE, Sprint(days))
        withCrit == IF warn > 0 THEN SetCrit(pdat, PDRMax(Sprint(warn))) ELSE pdat
    IN  IF crit > 0 THEN SetWarn(withCrit, PDRMax(Sprint(crit))) ELSE withCrit

\* The record setPerfData builds
ValidityPerfData(days) ==
    LET pdat == NewPerfData(ValidityLabel, UOM_NONE, Sprint(days))
        withCrit == IF crit > 0 THEN SetCrit(pdat, PDRMax(Sprint(crit))) ELSE pdat
    IN  IF warn > 0 THEN SetWarn(withCrit, PDRMax(Sprint(warn))) ELSE withCrit

\* ------------------------------------------------------------------------
\* check_ssl_certificate: the run of main()
\* ------------------------------------------------------------------------

\* The values, other than the plugin, of a program that has not started
Unstarted ==
    /\ hostname = <<>> /\ port = 0 /\ warn = 0 /\ crit = 0
    /\ ignoreCnOnly = FALSE /\ extraNames = <<>> /\ startTLS = ""
    /\ calls = <<>>
    /\ certificate = NilCertificate /\ err = NoError
    /\ dials = 0 /\ sent = <<>> /\ received = <<>> /\ handshakes = 0
    /\ panicking = FALSE
    /\ evaluated = FALSE /\ timeLeft = 0 /\ tlDays = 0
    /\ doneRan = FALSE /\ output = <<>> /\ exitCode = -1
    /\ zone = <<>> /\ rsHostname = <<>> /\ rsPort = 0
    /\ task = [t \in Servers |-> "none"]
    /\ exchanged = [t \in Servers |-> NoResponse]
    /\ iLoop = 0 /\ checkResponse = NoResponse /\ refResponse = NoResponse
    /\ arrived = <<>>

\* The values of a program that has called plugin.New and nothing else
Constructed == plugin = New(PluginName) /\ Unstarted

\* newProgram, after plugin.New and before parseArguments
Init == pc = "parse" /\ Constructed

\* parseArguments, called without -h
parseArguments ==
    /\ pc = "parse"
    /\ \E h \in HostNames, p \in Ports, w \in Thresholds, c \in Thresholds,
          i \in BOOLEAN, names \in NamesArgs, s \in StartTLSNames :
          /\ hostname' = h /\ port' = p /\ warn' = w /\ crit' = c
          /\ ignoreCnOnly' = i /\ startTLS' = s
          /\ extraNames' = parseNames(names)
    /\ pc' = "flags"
    /\ UNCHANGED <<pluginVars, netVars, expiryVars, zoneVars, exitVars>>

\* parseArguments, called with -h: usage is printed and the process exits
parseHelp ==
    /\ pc = "parse"
    /\ pc' = "exited"
    /\ exitCode' = 0
    /\ UNCHANGED <<flagVars, pluginVars, netVars, expiryVars, zoneVars, doneRan, output>>

\* InvalidPort with the lower end of the range off by one
InvalidPort_zeroAllowed == port < 0 \/ port > 65535

\* checkFlags: the port test
InvalidPort == port < 1 \/ port > 65535

\* NonsensicalThresholds that lets equal thresholds pass
NonsensicalThresholds_strict == warn # -1 /\ crit # -1 /\ warn < crit

\* checkFlags: the threshold test
NonsensicalThresholds == warn # -1 /\ crit # -1 /\ warn <= crit

\* checkFlags: the StartTLS protocol test
UnsupportedStartTLS == startTLS \notin certGetters

\* checkFlags, and the branch of main on its result
checkFlags ==
    /\ pc = "flags"
    /\ IF hostname = <<>>
       THEN /\ plugin' = SetState(plugin, UNKNOWN, <<"no hostname specified">>)
            /\ calls' = Append(calls, "SetState")
            /\ pc' = "close" /\ UNCHANGED hostname
       ELSE IF InvalidPort
       THEN /\ plugin' = SetState(plugin, UNKNOWN, <<"invalid or missing port number">>)
            /\ calls' = Append(calls, "SetState")
            /\ pc' = "close" /\ UNCHANGED hostname
       ELSE IF NonsensicalThresholds
       THEN /\ plugin' = SetState(plugin, UNKNOWN, <<"nonsensical thresholds">>)
            /\ calls' = Append(calls, "SetState")
            /\ pc' = "close" /\ UNCHANGED hostname
       ELSE IF UnsupportedStartTLS
       THEN /\ plugin' = SetState(plugin, UNKNOWN, <<"unsupported StartTLS protocol ", startTLS>>)
            /\ calls' = Append(calls, "SetState")
            /\ pc' = "close" /\ UNCHANGED hostname
       ELSE /\ hostname' = ToLower(hostname)
            /\ pc' = "dial"
            /\ UNCHANGED pluginVars
    /\ UNCHANGED <<port, warn, crit, ignoreCnOnly, extraNames, startTLS>>
    /\ UNCHANGED <<netVars, expiryVars, zoneVars, exitVars>>

\* getCertificateFailed that reports a text of its own instead of the error's
getCertificateFailed_ownText(e) ==
    /\ certificate' = NilCertificate
    /\ err' = Error(e)
    /\ plugin' = SetState(plugin, UNKNOWN, <<"could not get the certificate">>)
    /\ calls' = Append(calls, "SetState")
    /\ pc' = "close"

\* getCertificate returned err: runCheck reports it
getCertificateFailed(e) ==
    /\ certificate' = NilCertificate
    /\ err' = Error(e)
    /\ plugin' = SetState(plugin, UNKNOWN, e)
    /\ calls' = Append(calls, "SetState")
    /\ pc' = "close"

\* The position after a successful connection, by protocol
AfterDial == CASE startTLS = "smtp" -> "smtpGreeting"
               [] startTLS = "sieve" -> "sieveGreeting"
               [] OTHER -> "handshake"

\* getCertificate: tls.Dial / net.Dial opens the connection
Dial ==
    /\ pc = "dial"
    /\ dials' = dials + 1
    /\ \/ \E e \in NetErrors : getCertificateFailed(e)
       \/ /\ pc' = AfterDial
          /\ UNCHANGED <<pluginVars, certificate, err>>
    /\ UNCHANGED <<flagVars, sent, received, handshakes, panicking, expiryVars, zoneVars, exitVars>>

\* Largest number of lines a server sends before it stops or closes.
MaxLines == 2

\* SMTP status codes a server answers with
SmtpCodes == {220, 250, 554}

\* What a read of an SMTP response yields: a status code, or a read error
SmtpReplies == { [err |-> <<>>, code |-> c] : c \in SmtpCodes }
               \cup { [err |-> <<"EOF">>, code |-> 0] }

\* A write to the connection succeeds or fails
WriteResults == { <<>>, <<"write: broken pipe">> }

\* What a read of an SMTP response ended on: the status code, or the end of
\* the stream
SmtpRead(reply) == IF reply.err # <<>> THEN "EOF" ELSE Sprint(reply.code)

\* ReadResponse that accepts every status code
ReadResponse_anyCode(expectCode, reply) == reply.err

\* textproto.Conn.ReadResponse(expectCode): the error it returns, <<>> for nil
ReadResponse(expectCode, reply) ==
    IF reply.err # <<>> THEN reply.err
    ELSE IF reply.code # expectCode THEN <<Sprint(reply.code), " ", "reply text">>
    ELSE <<>>

\* One step of smtpGetter.getCertificate: an optional command, then the
\* response that is read for it
SmtpStep(at, command, expectCode, next) ==
    /\ pc = at
    /\ \E w \in WriteResults, r \in SmtpReplies :
          IF command # "" /\ w # <<>>
          THEN /\ getCertificateFailed(w)
               /\ UNCHANGED <<sent, received>>
          ELSE /\ sent' = IF command = "" THEN sent ELSE Append(sent, command)
               /\ received' = Append(received, SmtpRead(r))
               /\ IF ReadResponse(expectCode, r) # <<>>
                  THEN getCertificateFailed(ReadResponse(expectCode, r))
                  ELSE pc' = next /\ UNCHANGED <<pluginVars, certificate, err>>
    /\ UNCHANGED <<flagVars, dials, handshakes, panicking, expiryVars, zoneVars, exitVars>>

smtpGreeting == SmtpStep("smtpGreeting", "", 220, "smtpHelo")
smtpHelo == SmtpStep("smtpHelo", "HELO localhost", 250, "smtpStartTLS")
smtpStartTLS == SmtpStep("smtpStartTLS", "STARTTLS", 220, "handshake")

\* Lines a ManageSieve server sends
SieveLines == { <<"O", "K">>, <<"O", "K", " ", "r">>, <<"N", "O", " ", "n">>,
                <<"B", "Y", "E", " ", "b">>, <<"N", "O">>, <<"\"", "S", "\"">> }

\* What the scanner of waitOK is given: lines, then end of stream or a read error
SieveStreams == [lines : SeqUpTo(SieveLines, MaxLines), end : {<<>>, <<"read: connection reset">>}]

\* sieveGetter.waitOK: nil, or the error it returns, and the return statement
\* it left by (on an "OK", "NO " or "BYE " line, or at the end of the stream)
RECURSIVE waitOK(_)
waitOK(stream) ==
    IF stream.lines = <<>>
    THEN [nil |-> stream.end = <<>>, text |-> stream.end,
          on |-> IF stream.end = <<>> THEN "EOF" ELSE "ERR"]
    ELSE LET line == Head(stream.lines)
         IN  IF HasPrefix(line, <<"O", "K">>)
             THEN [nil |-> TRUE, text |-> <<>>, on |-> "OK"]
             ELSE IF HasPrefix(line, <<"N", "O", " ">>)
             THEN [nil |-> FALSE, text |-> SubSeq(line, 4, Len(line)), on |-> "NO"]
             ELSE IF HasPrefix(line, <<"B", "Y", "E", " ">>)
             THEN [nil |-> FALSE, text |-> SubSeq(line, 5, Len(line)), on |-> "BYE"]
             ELSE waitOK([stream EXCEPT !.lines = Tail(@)])

\* A wait has ended at the end of the stream: the server has closed the
\* connection, and nothing more can be read from it
StreamEnded == \E i \in DOMAIN received : received[i] = "EOF"

\* What the next scanner is given: nothing once the stream has ended
NextStreams == IF StreamEnded THEN { st \in SieveStreams : st.lines = <<>> }
               ELSE SieveStreams

\* One step of sieveGetter.getCertificate: an optional command (runCmd), then waitOK
SieveStep(at, command, next) ==
    /\ pc = at
    /\ \E w \in WriteResults, stream \in NextStreams :
          IF command # "" /\ w # <<>>
          THEN /\ getCertificateFailed(w)
               /\ UNCHANGED <<sent, received>>
          ELSE /\ sent' = IF command = "" THEN sent ELSE Append(sent, command)
               /\ received' = Append(received, waitOK(stream).on)
               /\ IF ~waitOK(stream).nil
                  THEN getCertificateFailed(waitOK(stream).text)
                  ELSE pc' = next /\ UNCHANGED <<pluginVars, certificate, err>>
    /\ UNCHANGED <<flagVars, dials, handshakes, panicking, expiryVars, zoneVars, exitVars>>

sieveGreeting == SieveStep("sieveGreeting", "", "sieveStartTLS")
sieveStartTLS == SieveStep("sieveStartTLS", "STARTTLS", "handshake")

\* Certificate chains a peer presents after a successful handshake
PeerCertificates == { <<>> } \cup { <<c>> : c \in Certificates }

\* The TLS handshake and the read of PeerCertificates[0].  The handshake
\* fails on a connection the server has closed.  With no certificate the
\* index panics: the deferred close() runs, with the state the plugin has at
\* that time
Handshake ==
    /\ pc = "handshake"
    /\ handshakes' = handshakes + 1
    /\ \/ \E e \in NetErrors : getCertificateFailed(e) /\ UNCHANGED panicking
       \/ \E chain \in PeerCertificates :
             /\ ~StreamEnded
             /\ IF Len(chain) = 0
                THEN /\ panicking' = TRUE
                     /\ pc' = "close"
                     /\ UNCHANGED <<pluginVars, certificate, err>>
                ELSE /\ certificate' = chain[1]
                     /\ pc' = "names"
                     /\ UNCHANGED <<pluginVars, err, panicking>>
    /\ UNCHANGED <<flagVars, dials, sent, received, expiryVars, zoneVars, exitVars>>

\* AfterNames that goes on to the expiry whatever checkNames returned
AfterNames_always(ok) == "expiry"

\* runCheck: the position after checkNames, by the value it returned
AfterNames(ok) == IF ok THEN "expiry" ELSE "close"

\* n calls of AddLine, as entries of the call log
AddLineCalls(n) == [i \in 1 .. n |-> "AddLine"]

\* checkNames (with checkSANlessCertificate and checkHostName), and the
\* branch of runCheck on its result
checkNames ==
    /\ pc = "names"
    /\ IF Len(certificate.DNSNames) = 0
       THEN IF ~SANlessAllowed
            THEN /\ plugin' = SetState(plugin, WARNING,
                                       <<"certificate doesn't have SAN domain names">>)
                 /\ calls' = Append(calls, "SetState")
                 /\ pc' = AfterNames(FALSE)
            ELSE IF ~CNMatches
            THEN /\ plugin' = SetState(plugin, CRITICAL, <<"incorrect certificate CN">>)
                 /\ calls' = Append(calls, "SetState")
                 /\ pc' = AfterNames(FALSE)
            ELSE /\ pc' = AfterNames(TRUE)
                 /\ UNCHANGED pluginVars
       ELSE LET checked == checkHostNames(plugin, CheckedNames)
                added == AddLineCalls(Len(checked.extraText) - Len(plugin.extraText))
            IN  IF ~NamesOk
                THEN /\ plugin' = SetState(checked, CRITICAL,
                                           <<"names missing from SAN domain names">>)
                     /\ calls' = (calls \o added) \o <<"SetState">>
                     /\ pc' = AfterNames(FALSE)
                ELSE /\ plugin' = checked
                     /\ calls' = calls \o added
                     /\ pc' = AfterNames(TRUE)
    /\ UNCHANGED <<flagVars, netVars, expiryVars, zoneVars, exitVars>>

\* The end of runCheck: the time left is read, the expiry state is set and
\* the performance data is added.  A panic of AddPerfData would end the run
\* in the deferred close() as well
checkExpiry ==
    /\ pc = "expiry"
    /\ \E t \in TimeLefts :
          LET verdict == checkCertificateExpiry(DaysLeft(t))
              stated == SetState(plugin, verdict.state, verdict.message)
              pdat == ValidityPerfData(DaysLeft(t))
          IN  /\ timeLeft' = t
              /\ tlDays' = DaysLeft(t)
              /\ plugin' = IF AddPerfDataPanics(stated, pdat) THEN stated
                           ELSE AddPerfData(stated, pdat)
              /\ panicking' = AddPerfDataPanics(stated, pdat)
    /\ calls' = calls \o <<"SetState", "AddPerfData">>
    /\ evaluated' = TRUE
    /\ pc' = "close"
    /\ UNCHANGED <<flagVars, certificate, err, dials, sent, received, handshakes, exitVars,
                 zoneVars>>

\* Plugin.Done prints and exits: in the deferred program.close() of the
\* check, or called by a client of the package
Done ==
    /\ pc \in {"close", "client"}
    /\ \E order \in Orders(DOMAIN perfData) : output' = DoneOutput(plugin, order)
    /\ exitCode' = DoneExitCode(plugin)
    /\ calls' = Append(calls, "Done")
    /\ doneRan' = TRUE
    /\ pc' = "exited"
    /\ UNCHANGED <<flagVars, plugin, netVars, expiryVars, zoneVars>>

Next ==
    \/ parseArguments
    \/ parseHelp
    \/ checkFlags
    \/ Dial
    \/ smtpGreeting
    \/ smtpHelo
    \/ smtpStartTLS
    \/ sieveGreeting
    \/ sieveStartTLS
    \/ Handshake
    \/ checkNames
    \/ checkExpiry
    \/ Done

Spec == Init /\ [][Next]_vars

\* ------------------------------------------------------------------------
\* plugin: the package on its own, its methods called in any order
\* ------------------------------------------------------------------------

\* Largest number of method calls a client makes before Done.
MaxCalls == 3

\* Arguments a client passes: messages, lines, performance data
ClientMessages == { <<"m">>, <<"n">> }
ClientLines == { <<"k">>, <<"l">> }
ClientPerfData ==
    { NewPerfData(l, UOM_NONE, v) : l \in {ValidityLabel, <<"t">>}, v \in {"1", "2"} }

\* A client that has called plugin.New
PluginInit == pc = "client" /\ Constructed

\* What a call of a method other than Done leaves alone
ClientFrame == UNCHANGED <<pc, flagVars, netVars, expiryVars, zoneVars, exitVars>>

\* A call of Plugin.SetState
CallSetState ==
    /\ pc = "client" /\ Len(calls) < MaxCalls
    /\ \E s \in {OK, WARNING, CRITICAL, UNKNOWN}, m \in ClientMessages :
          plugin' = SetState(plugin, s, m)
    /\ calls' = Append(calls, "SetState")
    /\ ClientFrame

\* A call of Plugin.AddLine
CallAddLine ==
    /\ pc = "client" /\ Len(calls) < MaxCalls
    /\ \E line \in ClientLines : plugin' = AddLine(plugin, line)
    /\ calls' = Append(calls, "AddLine")
    /\ ClientFrame

\* A call of Plugin.AddPerfData.  Its panic ends a client that does not
\* recover from it, with the exit code 2 of the Go runtime
CallAddPerfData ==
    /\ pc = "client" /\ Len(calls) < MaxCalls
    /\ calls' = Append(calls, "AddPerfData")
    /\ \E pd \in ClientPerfData :
          IF AddPerfDataPanics(plugin, pd)
          THEN /\ panicking' = TRUE
               /\ pc' = "exited"
               /\ exitCode' = 2
               /\ UNCHANGED <<plugin, flagVars, certificate, err, dials, sent,
                              received, handshakes, expiryVars, zoneVars, doneRan, output>>
          ELSE /\ plugin' = AddPerfData(plugin, pd)
               /\ ClientFrame

PluginNext ==
    \/ CallSetState
    \/ CallAddLine
    \/ CallAddPerfData
    \/ Done

PluginSpec == PluginInit /\ [][PluginNext]_vars

\* ------------------------------------------------------------------------
\* check_zone_serial: inputs and helpers
\* ------------------------------------------------------------------------

\* Largest number of records in the answer section of a response.
MaxAnswers == 2
\* Zone serials the servers answer with
Serials == {1, 2}

UOM_SECONDS == 1

\* -r: a name, or the empty default
RsHostNames == { <<"b", ".", "x">>, <<>> }

\* -z: a zone name, or the empty default
ZoneNames == { <<"Z", ".", "x">>, <<>> }

\* -P, -p: the default 53, and the first value outside each end of the range
ZonePorts == {0, 53, 65536}

\* Resource records of an answer section: SOA records, and one of another type
SOA(serial) == [type |-> "*dns.SOA", Serial |-> serial]
OtherRecord == [type |-> "*dns.A", Serial |-> 0]
Records == { SOA(n) : n \in Serials } \cup { OtherRecord }

\* Round-trip times, in microseconds
Rtts == { 1500, 2000000 }

\* Errors dns.Client.Exchange returns
DnsErrors == { <<"read udp: i/o timeout">> }

\* What dns.Client.Exchange returns: an error, an error with the message
\* read so far, or a message and its round-trip time
Responses ==
    { [nil |-> TRUE, answer |-> <<>>, rtt |-> 0, err |-> Error(e)] : e \in DnsErrors }
    \cup { [nil |-> FALSE, answer |-> <<SOA(1)>>, rtt |-> 1500, err |-> Error(e)] :
             e \in DnsErrors }
    \cup { [nil |-> FALSE, answer |-> a, rtt |-> r, err |-> NoError] :
             a \in SeqUpTo(Records, MaxAnswers), r \in Rtts }

\* fmt.Sprintf("%06d", n) for 0 <= n < 1000000
SixDigits(n) ==
    (IF n < 10 THEN "00000"
     ELSE IF n < 100 THEN "0000"
     ELSE IF n < 1000 THEN "000"
     ELSE IF n < 10000 THEN "00"
     ELSE IF n < 100000 THEN "0"
     ELSE "") \o ToString(n)

\* addRttPerf: fmt.Sprintf("%f", value.Seconds()), of a time in microseconds
FormatSeconds(us) == ToString(us \div 1000000) \o "." \o SixDigits(us % 1000000)

\* addRttPerf: the label fmt.Sprintf("%s_rtt", server)
RttLabel(server) ==
    IF server = "checked"
    THEN <<"c", "h", "e", "c", "k", "e", "d", "_", "r", "t", "t">>
    ELSE <<"r", "e", "f", "e", "r", "e", "n", "c", "e", "_", "r", "t", "t">>

\* addRttPerf: the record it adds
RttPerfData(server, rtt) == NewPerfData(RttLabel(server), UOM_SECONDS, FormatSeconds(rtt))

\* getSerial: ok, the serial, the plugin after its calls, the calls, and
\* whether AddPerfData panicked (the rest of getSerial is then not run)
getSerial(p, server, response) ==
    IF ~response.err.nil
    THEN [ok |-> FALSE, serial |-> 0, panics |-> FALSE, called |-> <<"AddLine">>,
          plugin |-> AddLine(p, <<server, " server error : ">> \o response.err.text)]
    ELSE IF AddPerfDataPanics(p, RttPerfData(server, response.rtt))
    THEN [ok |-> FALSE, serial |-> 0, panics |-> TRUE, called |-> <<"AddPerfData">>,
          plugin |-> p]
    ELSE LET q == AddPerfData(p, RttPerfData(server, response.rtt))
         IN  IF Len(response.answer) # 1
             THEN [ok |-> FALSE, serial |-> 0, panics |-> FALSE,
                   called |-> <<"AddPerfData", "AddLine">>,
                   plugin |-> AddLine(q, <<server, " server did not return exactly one record">>)]
             ELSE IF response.answer[1].type = "*dns.SOA"
             THEN [ok |-> TRUE, serial |-> response.answer[1].Serial, panics |-> FALSE,
                   called |-> <<"AddPerfData", "AddLine">>,
                   plugin |-> AddLine(q, <<"serial on ", server, " server: ",
                                           Sprint(response.answer[1].Serial)>>)]
             ELSE [ok |-> FALSE, serial |-> 0, panics |-> FALSE,
                   called |-> <<"AddPerfData", "AddLine">>,
                   plugin |-> AddLine(q, <<server, " server did not return SOA record; record type: ",
                                           response.answer[1].type>>)]

\* Output with the two channels given to the other goroutine each
Output_swapped(t) == IF t = "checked" THEN "refOut" ELSE "checkOut"

\* queryServers: the channel each goroutine is given as output
Output(t) == IF t = "checked" THEN "checkOut" ELSE "refOut"

\* SerialsState with one serial read being enough to compare
SerialsState_eitherRead(cOk, cSerial, rOk, rSerial) ==
    IF ~(cOk \/ rOk)
    THEN [status |-> UNKNOWN, message |-> <<"could not read serials">>]
    ELSE IF cSerial = rSerial
    THEN [status |-> OK, message |-> <<"serials match">>]
    ELSE [status |-> CRITICAL, message |-> <<"serials mismatch">>]

\* runCheck: the state it sets from what the two getSerial calls returned
SerialsState(cOk, cSerial, rOk, rSerial) ==
    IF ~(cOk /\ rOk)
    THEN [status |-> UNKNOWN, message |-> <<"could not read serials">>]
    ELSE IF cSerial = rSerial
    THEN [status |-> OK, message |-> <<"serials match">>]
    ELSE [status |-> CRITICAL, message |-> <<"serials mismatch">>]

\* ------------------------------------------------------------------------
\* check_zone_serial: the run of main()
\* ------------------------------------------------------------------------

ZonePluginName == <<"DNS zone serial match check">>

\* newProgram, after plugin.New and before parseArguments
ZoneInit == pc = "zoneParse" /\ plugin = New(ZonePluginName) /\ Unstarted

\* parseArguments, called without -h
zoneParseArguments ==
    /\ pc = "zoneParse"
    /\ \E h \in HostNames, p \in ZonePorts, z \in ZoneNames,
          r \in RsHostNames, rp \in ZonePorts :
          /\ hostname' = h /\ port' = p /\ zone' = z
          /\ rsHostname' = r /\ rsPort' = rp
    /\ pc' = "zoneFlags"
    /\ UNCHANGED <<warn, crit, ignoreCnOnly, extraNames, startTLS, pluginVars,
                   netVars, expiryVars, exitVars, task, exchanged, iLoop,
                   checkResponse, refResponse, arrived>>

\* parseArguments, called with -h: usage is printed and the process exits
zoneParseHelp ==
    /\ pc = "zoneParse"
    /\ pc' = "exited"
    /\ exitCode' = 0
    /\ UNCHANGED <<flagVars, pluginVars, netVars, expiryVars, zoneVars, doneRan, output>>

\* checkFlags
zoneCheckFlags ==
    /\ pc = "zoneFlags"
    /\ LET refuse(m) == /\ plugin' = SetState(plugin, UNKNOWN, <<m>>)
                        /\ calls' = Append(calls, "SetState")
                        /\ pc' = "zoneClose"
                        /\ UNCHANGED <<hostname, zone, rsHostname>>
       IN  IF hostname = <<>> THEN refuse("no DNS hostname specified")
           ELSE IF port < 1 \/ port > 65535 THEN refuse("invalid DNS port number")
           ELSE IF zone = <<>> THEN refuse("no DNS zone specified")
           ELSE IF rsHostname = <<>> THEN refuse("no reference DNS hostname specified")
           ELSE IF rsPort < 1 \/ rsPort > 65535
           THEN refuse("invalid reference DNS port number")
           ELSE /\ hostname' = ToLower(hostname)
                /\ zone' = ToLower(zone)
                /\ rsHostname' = ToLower(rsHostname)
                /\ pc' = "query"
                /\ UNCHANGED pluginVars
    /\ UNCHANGED <<port, warn, crit, ignoreCnOnly, extraNames, startTLS, rsPort,
                   netVars, expiryVars, exitVars, task, exchanged, iLoop,
                   checkResponse, refResponse, arrived>>

\* queryServers, up to the loop: the channels are made, the two goroutines
\* are started, the two responses are zero values
queryServers ==
    /\ pc = "query"
    /\ task' = [t \in Servers |-> "exchange"]
    /\ iLoop' = 0
    /\ checkResponse' = NoResponse /\ refResponse' = NoResponse
    /\ arrived' = <<>>
    /\ pc' = "select"
    /\ UNCHANGED <<flagVars, pluginVars, netVars, expiryVars, exitVars,
                   zone, rsHostname, rsPort, exchanged>>

\* queryZoneSOA, up to its send: the exchange with the server returns
queryZoneSOA(t) ==
    /\ pc # "exited"
    /\ task[t] = "exchange"
    /\ \E r \in Responses : exchanged' = [exchanged EXCEPT ![t] = r]
    /\ task' = [task EXCEPT ![t] = "send"]
    /\ UNCHANGED <<pc, flagVars, pluginVars, netVars, expiryVars, exitVars,
                   zone, rsHostname, rsPort, iLoop, checkResponse, refResponse,
                   arrived>>

\* One round of the loop of queryServers: a case of the select receives
\* from its channel, which is unbuffered, as the goroutine blocked in the
\* send on that channel completes it and ends.  After the second round
\* queryServers returns
selectReceive(ch) ==
    /\ pc = "select"
    /\ iLoop < 2
    /\ \E t \in Servers :
          /\ task[t] = "send"
          /\ Output(t) = ch
          /\ task' = [task EXCEPT ![t] = "done"]
          /\ IF ch = "checkOut"
             THEN checkResponse' = exchanged[t] /\ UNCHANGED refResponse
             ELSE refResponse' = exchanged[t] /\ UNCHANGED checkResponse
    /\ iLoop' = iLoop + 1
    /\ arrived' = Append(arrived, ch)
    /\ pc' = IF iLoop + 1 < 2 THEN "select" ELSE "serials"
    /\ UNCHANGED <<flagVars, pluginVars, netVars, expiryVars, exitVars,
                   zone, rsHostname, rsPort, exchanged>>

\* runCheck, after queryServers has returned.  A panic of AddPerfData ends
\* it; err then holds the value of the panic
zoneRunCheck ==
    /\ pc = "serials"
    /\ LET c == getSerial(plugin, "checked", checkResponse)
           r == getSerial(c.plugin, "reference", refResponse)
           s == SerialsState(c.ok, c.serial, r.ok, r.serial)
       IN  IF c.panics
           THEN /\ plugin' = c.plugin
                /\ calls' = calls \o c.called
                /\ panicking' = TRUE
                /\ err' = Error(<<"duplicate performance data ">> \o RttLabel("checked"))
           ELSE IF r.panics
           THEN /\ plugin' = r.plugin
                /\ calls' = calls \o c.called \o r.called
                /\ panicking' = TRUE
                /\ err' = Error(<<"duplicate performance data ">> \o RttLabel("reference"))
           ELSE /\ plugin' = SetState(r.plugin, s.status, s.message)
                /\ calls' = calls \o c.called \o r.called \o <<"SetState">>
                /\ UNCHANGED <<panicking, err>>
    /\ pc' = "zoneClose"
    /\ UNCHANGED <<flagVars, certificate, dials, sent, received, handshakes,
                   expiryVars, exitVars, zoneVars>>

\* close, deferred by main: the state of a recovered panic is set, then
\* Done prints the output and exits
zoneClose ==
    /\ pc = "zoneClose"
    /\ LET p == IF panicking
                THEN AddLine(SetState(plugin, UNKNOWN, <<"Internal error">>),
                             <<"Error info: ">> \o err.text)
                ELSE plugin
       IN  /\ plugin' = p
           /\ calls' = calls \o (IF panicking THEN <<"SetState", "AddLine">> ELSE <<>>)
                             \o <<"Done">>
           /\ \E order \in Orders(DOMAIN p.perfData) : output' = DoneOutput(p, order)
           /\ exitCode' = DoneExitCode(p)
    /\ doneRan' = TRUE
    /\ pc' = "exited"
    /\ UNCHANGED <<flagVars, netVars, expiryVars, zoneVars>>

ZoneNext ==
    \/ zoneParseArguments
    \/ zoneParseHelp
    \/ zoneCheckFlags
    \/ queryServers
    \/ \E t \in Servers : queryZoneSOA(t)
    \/ \E ch \in {"checkOut", "refOut"} : selectReceive(ch)
    \/ zoneRunCheck
    \/ zoneClose

ZoneSpec == ZoneInit /\ [][ZoneNext]_vars

\* ------------------------------------------------------------------------
\* Properties
\* ------------------------------------------------------------------------

\* The run is over: close() is about to run, or Done has run
Finished == pc = "close" \/ doneRan

\* ceil(a / b) for b > 0
Ceil(a, b) == -((-a) \div b)

\* A threshold was given on the command line
Configured(t) == t # -1

\* The classification of the specification, in its order of precedence
ExpectedExpiryState(days) ==
    IF days <= 0 THEN CRITICAL
    ELSE IF Configured(crit) /\ days <= crit THEN CRITICAL
    ELSE IF Configured(warn) /\ days <= warn THEN WARNING
    ELSE OK

\* C1: once the expiry has been evaluated, the state is the one the fixed
\* precedence gives for the days left and the thresholds: expired first (with
\* the message "certificate expired"), then the critical threshold, then the
\* warning threshold, then OK.
C1_ExpiryPrecedence ==
    evaluated =>
        /\ status = ExpectedExpiryState(tlDays)
        /\ tlDays <= 0 => message = <<"certificate expired">>
        /\ tlDays > 0 => message # <<"certificate expired">>

\* C1 witness: with both thresholds set, a certificate between them is WARNING
C1_Witness ==
    /\ doneRan /\ evaluated
    /\ warn = 2 /\ crit = 1 /\ tlDays = 2
    /\ status = WARNING

\* C2 as stated: the days left are the ceiling of the time left in days, for
\* every time left.
C2_DaysIsCeilAlways == evaluated => tlDays = Ceil(timeLeft, Day)

\* C2 amended: the days left are the ceiling of the time left in days when
\* the time left is negative and more than minus one day, or is not negative
\* and its part beyond whole days is zero or at least one second.  A shorter
\* positive part is rounded down.
C2_DaysIsCeilOfSeconds ==
    evaluated =>
        LET part == timeLeft % Day
        IN  /\ (-Day < timeLeft /\ timeLeft < 0) => tlDays = Ceil(timeLeft, Day)
            /\ (timeLeft >= 0 /\ (part = 0 \/ part >= Second)) => tlDays = Ceil(timeLeft, Day)
            /\ (timeLeft >= 0 /\ 0 < part /\ part < Second) => tlDays = Ceil(timeLeft, Day) - 1

\* C2 witness: one day and one second left count as two days
C2_Witness == evaluated /\ timeLeft = Day + Second /\ tlDays = 2

\* C3: between one second and 24 hours left there is one day left; with a
\* negative time left there are no days left and the state is CRITICAL
\* "certificate expired", whatever the thresholds.
C3_ExpiryRounding ==
    evaluated =>
        /\ (Second <= timeLeft /\ timeLeft <= Day) => tlDays = 1
        /\ timeLeft < 0 =>
              /\ tlDays <= 0
              /\ status = CRITICAL
              /\ message = <<"certificate expired">>
              /\ doneRan => exitCode = 2

\* C3 witness: a certificate that expired less than a second ago, with both
\* thresholds set, is reported as expired
C3_Witness ==
    /\ doneRan /\ evaluated
    /\ -Second < timeLeft /\ timeLeft < 0
    /\ warn = 2 /\ crit = 1
    /\ status = CRITICAL /\ message = <<"certificate expired">>

\* Two names are equal up to letter case
EqualFold(a, b) == ToLower(a) = ToLower(b)

\* A name is one of the certificate's DNS names, up to letter case
Present(name) ==
    \E i \in DOMAIN certificate.DNSNames : EqualFold(certificate.DNSNames[i], name)

\* The names the certificate is required to have: -H, then -a
Requested == <<hostname>> \o extraNames

\* checkNames has run / has run and returned false
NamesValidated == ~certificate.nil /\ pc \in {"expiry", "close", "exited"}
NamesRejected == NamesValidated /\ ~evaluated /\ pc # "expiry"

\* One line per requested name that is not present, in the order requested
RECURSIVE ExpectedMissing(_)
ExpectedMissing(names) ==
    IF names = <<>> THEN <<>>
    ELSE (IF Present(Head(names)) THEN <<>>
          ELSE <<(<<"missing DNS name ">> \o Head(names) \o <<" in certificate">>)>>)
         \o ExpectedMissing(Tail(names))

\* C4: for a certificate with DNS names, every requested name is checked:
\* the finding lines are exactly one "missing DNS name" line per requested
\* name that is absent from the DNS names, and name validation ends with
\* CRITICAL exactly when some requested name is absent.
C4_AllNamesChecked ==
    (NamesValidated /\ Len(certificate.DNSNames) > 0) =>
        /\ extraText = ExpectedMissing(Requested)
        /\ NamesRejected <=> \E i \in DOMAIN Requested : ~Present(Requested[i])
        /\ NamesRejected =>
              /\ status = CRITICAL
              /\ message = <<"names missing from SAN domain names">>

\* C5: a requested name that differs from a DNS name of the certificate in
\* letter case only is treated as present: no missing-name line is added for
\* it, and name validation does not fail when all requested names are present
\* in that sense.
C5_CaseInsensitiveNames ==
    (NamesValidated /\ Len(certificate.DNSNames) > 0) =>
        /\ \A i \in DOMAIN Requested :
              Present(Requested[i]) =>
                  \A j \in DOMAIN extraText :
                      extraText[j] # <<"missing DNS name ">> \o Requested[i] \o <<" in certificate">>
        /\ (\A i \in DOMAIN Requested : Present(Requested[i])) => ~NamesRejected

\* C6: a certificate without DNS names, checked without the CN fallback flag
\* or with additional names requested, ends with WARNING "certificate
\* doesn't have SAN domain names" whatever its subject is, and its expiry is
\* not evaluated.
C6_NoSANWarning ==
    (~certificate.nil /\ Len(certificate.DNSNames) = 0
        /\ (~ignoreCnOnly \/ Len(extraNames) > 0)) =>
        /\ pc # "expiry"
        /\ ~evaluated
        /\ DOMAIN perfData = {}
        /\ Finished =>
              /\ status = WARNING
              /\ message = <<"certificate doesn't have SAN domain names">>
        /\ doneRan => exitCode = 1

\* C6 witness: the warning is given although the CN is the requested host
C6_Witness ==
    /\ doneRan /\ ~ignoreCnOnly /\ extraNames = <<>>
    /\ ~certificate.nil /\ certificate.DNSNames = <<>>
    /\ certificate.Subject = <<"C", "N", "=">> \o hostname \o <<",", "O", "=", "x">>
    /\ status = WARNING

\* The lower-cased subject starts with "cn=<hostname>,"
SubjectNamesHost ==
    LET dn == certificate.Subject
        want == <<"c", "n", "=">> \o hostname \o <<",">>
    IN  /\ Len(dn) >= Len(want)
        /\ \A i \in 1 .. Len(want) : LowerChar(dn[i]) = want[i]

\* C7: a certificate without DNS names, checked with the CN fallback flag
\* and no additional names: if the lower-cased subject starts with
\* "cn=<hostname>," the expiry is evaluated and decides the final state;
\* otherwise the run ends with CRITICAL "incorrect certificate CN".
C7_CNFallback ==
    (~certificate.nil /\ Len(certificate.DNSNames) = 0
        /\ ignoreCnOnly /\ Len(extraNames) = 0 /\ Finished) =>
        IF SubjectNamesHost
        THEN /\ evaluated
             /\ status = ExpectedExpiryState(tlDays)
        ELSE /\ ~evaluated
             /\ status = CRITICAL
             /\ message = <<"incorrect certificate CN">>

\* C7 witness: the subject "CN=A.X,O=x" is accepted for the host a.x and the
\* certificate's expiry decides
C7_Witness ==
    /\ doneRan /\ evaluated /\ ignoreCnOnly
    /\ certificate.DNSNames = <<>>
    /\ certificate.Subject = <<"C", "N", "=", "A", ".", "X", ",", "O", "=", "x">>
    /\ hostname = <<"a", ".", "x">>
    /\ status = OK

\* C8 as stated: with both thresholds given (as day counts, warning <=
\* critical) the run ends with UNKNOWN "nonsensical thresholds" and opens no
\* connection.
C8_NonsensicalMessageAlways ==
    (Finished /\ warn > 0 /\ crit > 0 /\ warn <= crit) =>
        /\ status = UNKNOWN
        /\ message = <<"nonsensical thresholds">>
        /\ dials = 0

\* C8 amended: with both thresholds given and warning <= critical the run
\* ends with UNKNOWN and opens no connection; the message is "nonsensical
\* thresholds" when the host name is not empty and the port is in 1..65535,
\* and the message of the host name or port test, which come first, otherwise.
C8_NonsensicalThresholds ==
    (pc # "parse" /\ pc # "flags" /\ ~(pc = "exited" /\ ~doneRan)
        /\ warn # -1 /\ crit # -1 /\ warn <= crit) =>
        /\ Finished
        /\ status = UNKNOWN
        /\ dials = 0 /\ handshakes = 0 /\ sent = <<>>
        /\ message = IF hostname = <<>> THEN <<"no hostname specified">>
                     ELSE IF port \notin 1 .. 65535 THEN <<"invalid or missing port number">>
                     ELSE <<"nonsensical thresholds">>
        /\ doneRan => exitCode = 3

\* C8 witness: -W 1 -C 2 with a host and a port ends with the threshold message
C8_Witness ==
    /\ doneRan /\ hostname # <<>> /\ port = 443
    /\ warn = 1 /\ crit = 2
    /\ status = UNKNOWN /\ message = <<"nonsensical thresholds">>
    /\ dials = 0

\* The arguments pass the tests of the specification
ValidArguments ==
    /\ hostname # <<>>
    /\ port \in 1 .. 65535
    /\ startTLS \in {"", "smtp", "sieve"}

\* C9: a connection is opened only after checkFlags succeeded: with an empty
\* host name, a port outside 1..65535 or an unknown StartTLS protocol the run
\* ends with UNKNOWN and no connection attempt.
C9_NoConnectionBeforeFlags ==
    /\ (dials > 0 \/ handshakes > 0 \/ sent # <<>> \/ ~certificate.nil) =>
          /\ ValidArguments
          /\ pc \notin {"parse", "flags"}
    /\ (pc \notin {"parse", "flags"} /\ ~(pc = "exited" /\ ~doneRan) /\ ~ValidArguments) =>
          /\ Finished
          /\ status = UNKNOWN
          /\ dials = 0
          /\ doneRan => exitCode = 3

\* C9 witness: an unknown StartTLS protocol ends the run without a connection
C9_Witness ==
    /\ doneRan /\ hostname # <<>> /\ port = 443 /\ startTLS = "imap"
    /\ status = UNKNOWN /\ dials = 0

\* The status word on the first line Done prints
PrintedStatus == output[1][Len(PluginName) + 2]

\* C10: the exit code is the numeric value of the state at the time Done
\* runs: 0 for OK, 1 for WARNING, 2 for CRITICAL, 3 for UNKNOWN.
C10_ExitCode ==
    doneRan =>
        /\ exitCode = CASE PrintedStatus = "OK" -> 0
                        [] PrintedStatus = "WARNING" -> 1
                        [] PrintedStatus = "ERROR" -> 2
                        [] PrintedStatus = "UNKNOWN" -> 3
        /\ status = OK => exitCode = 0
        /\ status = WARNING => exitCode = 1
        /\ status = CRITICAL => exitCode = 2
        /\ status = UNKNOWN => exitCode = 3
        /\ message = <<"certificate expired">> => exitCode = 2
        /\ message = <<"names missing from SAN domain names">> => exitCode = 2
        /\ message = <<"certificate doesn't have SAN domain names">> => exitCode = 1
        /\ message = <<"no status set">> => exitCode = 3

\* C10 witness: a run that ends with WARNING exits with code 1
C10_Witness == doneRan /\ status = WARNING /\ exitCode = 1

\* The number of calls of a method of the plugin so far
CountCalls(method) == Cardinality({ i \in DOMAIN calls : calls[i] = method })

\* C11: on every path of the check that has reached its end (arguments
\* rejected, certificate not obtained, names rejected, expiry evaluated)
\* SetState has been called exactly once; Done is called exactly once, and is
\* the last call, after that SetState; before Done has run it has not been
\* called.
C11_OneSetStateThenDone ==
    /\ Finished => CountCalls("SetState") = 1
    /\ doneRan =>
          /\ CountCalls("Done") = 1
          /\ calls[Len(calls)] = "Done"
    /\ ~doneRan => CountCalls("Done") = 0

\* The plugin holds one record, labelled "validity", whose value is the days
\* left, with a warning range iff withWarn and a critical range iff withCrit,
\* each ending at its threshold
OneValidityRecord(withWarn, withCrit) ==
    /\ CountCalls("AddPerfData") = 1
    /\ DOMAIN perfData = {ValidityLabel}
    /\ LET pd == perfData[ValidityLabel]
       IN  /\ pd.Label = ValidityLabel
           /\ pd.value = ToString(tlDays)
           /\ (PDAT_WARN \in pd.bits) <=> withWarn
           /\ (PDAT_CRIT \in pd.bits) <=> withCrit
           /\ withWarn => pd.warn.end = ToString(warn)
           /\ withCrit => pd.crit.end = ToString(crit)

\* C12 as stated: every run of the check that has reached its end has added
\* exactly one performance-data record, labelled "validity", whose value is
\* the days left, with a warning range iff a warning threshold was given and
\* a critical range iff a critical threshold was given, each ending at its
\* threshold.
C12_ValidityRecordAlways ==
    Finished => OneValidityRecord(Configured(warn), Configured(crit))

\* C12 amended: a run in which the expiry was evaluated has added exactly one
\* performance-data record, labelled "validity", whose value is the days
\* left, with a warning range iff the warning threshold is greater than zero
\* and a critical range iff the critical threshold is greater than zero, each
\* ending at its threshold; a run that ended before the expiry was evaluated
\* has added no record.
C12_ValidityRecordAtExpiry ==
    Finished =>
        IF evaluated
        THEN OneValidityRecord(warn > 0, crit > 0)
        ELSE /\ CountCalls("AddPerfData") = 0
             /\ DOMAIN perfData = {}

\* C12 witness: with only a warning threshold of two days the record has a
\* warning range that ends at 2 and no critical range
C12_Witness ==
    /\ doneRan /\ evaluated /\ warn = 2 /\ crit = -1 /\ tlDays = 1
    /\ perfData[ValidityLabel].value = "1"
    /\ PDAT_WARN \in perfData[ValidityLabel].bits
    /\ PDAT_CRIT \notin perfData[ValidityLabel].bits
    /\ perfData[ValidityLabel].warn.end = "2"

\* C13: a step of the name validation that leaves the state WARNING or
\* CRITICAL goes to the end of the run without the expiry being evaluated,
\* and from the end of the run on the only step is the one of Done, which
\* changes neither the state nor the message nor evaluates the expiry: the
\* verdict of the validator is the final one.
C13_NamesShortCircuit ==
    [][/\ (pc = "names" /\ status' \in {WARNING, CRITICAL}) =>
             /\ pc' = "close"
             /\ ~evaluated'
       /\ pc = "close" =>
             /\ pc' = "exited"
             /\ status' = status /\ message' = message
             /\ evaluated' = evaluated
             /\ output'[1][Len(PluginName) + 2] = StatusString(status)]_vars

\* C13 witness: a run whose names were rejected has ended CRITICAL with the
\* message of the validator and without an expiry verdict
C13_Witness ==
    /\ doneRan /\ ~evaluated /\ ~certificate.nil
    /\ status = CRITICAL
    /\ message = <<"names missing from SAN domain names">>
    /\ exitCode = 2

\* The SMTP dialogue of the specification: the status codes the three reads
\* are to end on, and the commands sent between them
SmtpExpected == <<"220", "250", "220">>
SmtpCommands == <<"HELO localhost", "STARTTLS">>

\* C14: with -s smtp, the i-th command is "HELO localhost", then "STARTTLS",
\* and it is sent only after the i-th read ended on the expected code (220
\* for the greeting, 250 for HELO); the TLS handshake is started only after
\* the three reads ended on 220, 250, 220 with both commands sent; a read
\* that ends on anything else is the last one: no command is sent after it,
\* no handshake is started, and the run ends UNKNOWN without a certificate.
C14_SmtpPreamble ==
    startTLS = "smtp" =>
        /\ Len(received) <= 3 /\ Len(sent) <= 2
        /\ \A i \in DOMAIN sent :
              /\ sent[i] = SmtpCommands[i]
              /\ i \in DOMAIN received /\ received[i] = SmtpExpected[i]
        /\ (pc = "handshake" \/ handshakes > 0) =>
              /\ received = SmtpExpected
              /\ sent = SmtpCommands
        /\ \A i \in DOMAIN received :
              received[i] # SmtpExpected[i] =>
                  /\ i = Len(received)
                  /\ Len(sent) = i - 1
                  /\ handshakes = 0
                  /\ Finished /\ status = UNKNOWN
                  /\ certificate.nil /\ ~evaluated

\* C14 witness: a certificate was obtained over SMTP after the whole dialogue
C14_Witness ==
    /\ startTLS = "smtp" /\ ~certificate.nil /\ handshakes = 1
    /\ received = <<"220", "250", "220">>
    /\ sent = <<"HELO localhost", "STARTTLS">>

\* What is left of the lines a server may send that begin with the prefix
Remainders(prefix) ==
    { SubSeq(l, Len(prefix) + 1, Len(l)) : l \in { k \in SieveLines : HasPrefix(k, prefix) } }

\* C15: with -s sieve, "STARTTLS" is the only command and is sent only after
\* the first wait ended on a line that begins with OK; the TLS handshake is
\* started only after the second wait ended on such a line as well; a wait
\* that ends on a line that begins with "NO " or "BYE " is the last one, no
\* handshake is started, and the run ends UNKNOWN with the rest of that line
\* as its message.
C15_SievePreamble ==
    startTLS = "sieve" =>
        /\ sent # <<>> =>
              /\ sent = <<"STARTTLS">>
              /\ received # <<>> /\ received[1] = "OK"
        /\ (pc = "handshake" \/ handshakes > 0) => received = <<"OK", "OK">>
        /\ \A i \in DOMAIN received :
              received[i] \in {"NO", "BYE"} =>
                  /\ i = Len(received)
                  /\ handshakes = 0
                  /\ Finished /\ status = UNKNOWN /\ certificate.nil
                  /\ received[i] = "NO" => message \in Remainders(<<"N", "O", " ">>)
                  /\ received[i] = "BYE" => message \in Remainders(<<"B", "Y", "E", " ">>)

\* C16: at most one connection is opened and at most one handshake started
\* in a run; once getCertificate has returned an error (from the connection,
\* the StartTLS dialogue or the handshake) the run is at its end with the
\* state UNKNOWN and the text of that error as message, after one connection
\* attempt, without a certificate, without name validation or expiry
\* evaluation, without finding lines and without performance data; Done
\* prints that single line and exits with 3.
C16_NoRetry ==
    /\ dials <= 1 /\ handshakes <= 1
    /\ ~err.nil =>
          /\ dials = 1
          /\ Finished /\ status = UNKNOWN /\ message = err.text
          /\ certificate.nil /\ ~evaluated
          /\ extraText = <<>> /\ DOMAIN perfData = {}
          /\ CountCalls("AddLine") = 0 /\ CountCalls("AddPerfData") = 0
          /\ doneRan =>
                /\ exitCode = 3
                /\ output = << PluginName \o <<" ", "UNKNOWN", ": ">> \o err.text >>

\* C16 witness: an SMTP server that answers HELO with 554 ends the run with
\* UNKNOWN and the text of the reply, after one connection and no handshake
C16_Witness ==
    /\ doneRan /\ startTLS = "smtp" /\ dials = 1 /\ handshakes = 0
    /\ received = <<"220", "554">>
    /\ err.text = <<"554", " ", "reply text">>
    /\ status = UNKNOWN /\ message = <<"554", " ", "reply text">>
    /\ exitCode = 3

\* C17: when the handshake has succeeded with an empty list of peer
\* certificates (the index of its first element panics), for every protocol,
\* the run is at its end with the state UNKNOWN: while Done has not run it is
\* about to, and once it has run, exactly once, it has printed UNKNOWN and the
\* exit code is 3.
C17_NoCertificateIsUnknown ==
    panicking =>
        /\ handshakes = 1 /\ certificate.nil /\ err.nil
        /\ Finished /\ status = UNKNOWN
        /\ ~doneRan => ENABLED Done
        /\ doneRan =>
              /\ CountCalls("Done") = 1
              /\ pc = "exited"
              /\ PrintedStatus = "UNKNOWN"
              /\ exitCode = 3

\* C17 witness: a run over SMTP in which the server presented no certificate
\* has ended with exit code 3
C17_Witness ==
    /\ panicking /\ doneRan /\ startTLS = "smtp"
    /\ sent = <<"HELO localhost", "STARTTLS">>
    /\ PrintedStatus = "UNKNOWN" /\ exitCode = 3

\* The first line Done printed holds the text as one of its parts
Printed(text) == \E i \in DOMAIN output[1] : output[1][i] = text

\* C18: in the output of a run that evaluated the expiry, the range of a
\* warning threshold N > 0 and the range of a critical threshold N > 0 are
\* printed as "~:N".
C18_RangeRendering ==
    (doneRan /\ evaluated) =>
        /\ warn > 0 =>
              /\ RangeString(perfData[ValidityLabel].warn) = "~:" \o ToString(warn)
              /\ Printed("~:" \o ToString(warn))
        /\ crit > 0 =>
              /\ RangeString(perfData[ValidityLabel].crit) = "~:" \o ToString(crit)
              /\ Printed("~:" \o ToString(crit))

\* C19: whatever methods a client calls, no step replaces or removes a
\* record the plugin holds, so the record held for a label is the first one
\* added for it; a call of AddPerfData either registers its record under a
\* label that was free, or panics: the records are left as they were and the
\* process has ended, without Done and with an exit code other than 0.
C19_DuplicateLabelIsFatal ==
    [][/\ \A l \in DOMAIN perfData :
             l \in DOMAIN perfData' /\ perfData'[l] = perfData[l]
       /\ calls' = Append(calls, "AddPerfData") =>
             IF panicking'
             THEN /\ perfData' = perfData
                  /\ pc' = "exited" /\ ~doneRan' /\ exitCode' # 0
             ELSE \E l \in DOMAIN perfData' :
                     /\ l \notin DOMAIN perfData
                     /\ DOMAIN perfData' = DOMAIN perfData \cup {l}
                     /\ perfData'[l].Label = l]_vars

\* C19 witness: the second record added under the label "validity" has ended
\* the process, and the plugin holds the first one
C19_Witness ==
    /\ panicking /\ pc = "exited"
    /\ calls = <<"AddPerfData", "AddPerfData">>
    /\ DOMAIN perfData = {ValidityLabel}
    /\ perfData[ValidityLabel].value = "1"

\* The sequence s is the beginning of the sequence t
IsPrefix(s, t) == Len(s) <= Len(t) /\ SubSeq(t, 1, Len(s)) = s

\* C20: a call of SetState leaves the lines, the performance data and the
\* name as they were; no step drops or reorders the lines added so far, and
\* there are as many of them as calls of AddLine since New; what Done prints
\* after its first line is these lines, in the order in which they were
\* added.
C20_SetStateKeepsLines ==
    [][/\ calls' = Append(calls, "SetState") =>
             /\ extraText' = extraText
             /\ perfData' = perfData
             /\ plugin'.name = plugin.name
       /\ IsPrefix(extraText, extraText')
       /\ Len(extraText') = CountCalls("AddLine")'
       /\ doneRan' =>
             /\ Len(output') = 1 + CountCalls("AddLine")'
             /\ Tail(output') = extraText']_vars

\* C20 witness: a line added before SetState is printed by Done after the
\* first line
C20_Witness ==
    /\ doneRan /\ calls = <<"AddLine", "SetState", "Done">>
    /\ status = CRITICAL
    /\ Len(output) = 2 /\ output[2] = <<"k">>

\* queryServers has returned
QueryReturned ==
    pc \in {"serials", "zoneClose", "exited"} /\ task["checked"] # "none"

\* C21: under every interleaving of the two queries, queryServers returns
\* only after it has received exactly one response from each goroutine;
\* what the goroutine of the checked server obtained is returned first and
\* what the goroutine of the reference server obtained second; no
\* goroutine stays blocked in its send, and while queryServers waits some
\* step of the program can be taken.
C21_OneResponseFromEach ==
    /\ QueryReturned =>
          /\ iLoop = 2
          /\ arrived \in { <<"checkOut", "refOut">>, <<"refOut", "checkOut">> }
          /\ \A t \in Servers : task[t] = "done"
          /\ checkResponse = exchanged["checked"]
          /\ refResponse = exchanged["reference"]
    /\ \A t \in Servers :
          task[t] = "send" => pc = "select" /\ ENABLED selectReceive(Output(t))
    /\ pc = "select" => ENABLED ZoneNext

\* C21 witness: queryServers has returned two different responses, the
\* one of the reference server having arrived first
C21_Witness ==
    /\ pc = "serials"
    /\ arrived = <<"refOut", "checkOut">>
    /\ checkResponse # refResponse
    /\ ~checkResponse.nil /\ refResponse.nil
    /\ checkResponse = exchanged["checked"]

\* A serial can be read from the response: no error, exactly one answer
\* record, and that record is an SOA
Readable(response) ==
    /\ response.err.nil
    /\ Len(response.answer) = 1
    /\ response.answer[1].type = "*dns.SOA"

\* The status and message the serials of the two responses call for
SerialsVerdict ==
    IF ~(Readable(checkResponse) /\ Readable(refResponse))
    THEN <<UNKNOWN, "could not read serials">>
    ELSE IF checkResponse.answer[1].Serial = refResponse.answer[1].Serial
    THEN <<OK, "serials match">>
    ELSE <<CRITICAL, "serials mismatch">>

\* The elements of a line
Words(line) == { line[n] : n \in DOMAIN line }

\* C22: once both responses are in, the run ends with OK "serials match"
\* exactly when a serial was read from both responses and the two are
\* equal, with CRITICAL "serials mismatch" exactly when both were read and
\* differ, and with UNKNOWN "could not read serials" whenever a response
\* carries an error, has not exactly one answer record or has a record
\* that is not an SOA; the status, the message and the exit code printed
\* are these; each of the two responses is examined, the checked one
\* first, whatever the first one was; a run that never queried ends with
\* none of the three messages.
C22_SerialsVerdict ==
    /\ (pc = "exited" /\ QueryReturned) =>
          /\ plugin.status = SerialsVerdict[1]
          /\ plugin.message = <<SerialsVerdict[2]>>
          /\ exitCode = SerialsVerdict[1]
          /\ output[1][3] = StatusString(SerialsVerdict[1])
          /\ output[1][5] = SerialsVerdict[2]
          /\ Len(plugin.extraText) = 2
          /\ "checked" \in Words(plugin.extraText[1])
          /\ "reference" \in Words(plugin.extraText[2])
          /\ Len(output) = 3
          /\ RttLabel("checked") \in DOMAIN plugin.perfData <=> checkResponse.err.nil
          /\ RttLabel("reference") \in DOMAIN plugin.perfData <=> refResponse.err.nil
    /\ (pc = "exited" /\ doneRan /\ ~QueryReturned) =>
          plugin.message \notin { <<"serials match">>, <<"serials mismatch">>,
                                  <<"could not read serials">> }

\* C22 witness: the checked server failed, the reference server answered
\* with its serial, and the run ended with UNKNOWN and a line for each
C22_Witness ==
    /\ pc = "exited" /\ QueryReturned
    /\ ~checkResponse.err.nil
    /\ Readable(refResponse)
    /\ exitCode = UNKNOWN
    /\ output[1][5] = "could not read serials"
    /\ output[3] = <<"serial on ", "reference", " server: ", "2">>

\* C22, second witness: both serials were read and differ
C22_WitnessMismatch ==
    /\ pc = "exited" /\ QueryReturned
    /\ Readable(checkResponse) /\ Readable(refResponse)
    /\ exitCode = CRITICAL
    /\ output[1][5] = "serials mismatch"

\* C23: whatever the sequence of SetState, AddLine and AddPerfData calls
\* on a plugin made by New, only a SetState call changes the status or the
\* message, and to one of the values it can be called with; AddLine and
\* AddPerfData, a panicking AddPerfData included, leave both as they are;
\* as long as SetState was not called they are UNKNOWN and "no status
\* set"; Done prints the status and the message as they are when it is
\* called, those of the most recent SetState call, and exits with the
\* code of that status.
C23_LastSetStateIsPrinted ==
    [][/\ calls' = Append(calls, "SetState") =>
             /\ status' \in {OK, WARNING, CRITICAL, UNKNOWN}
             /\ message' \in ClientMessages
       /\ calls' = Append(calls, "AddLine") =>
             status' = status /\ message' = message
       /\ calls' = Append(calls, "AddPerfData") =>
             status' = status /\ message' = message
       /\ CountCalls("SetState")' = 0 =>
             status' = UNKNOWN /\ message' = <<"no status set">>
       /\ calls' = Append(calls, "Done") =>
             /\ status' = status /\ message' = message
             /\ output'[1][Len(PluginName) + 2] = StatusString(status)
             /\ SubSeq(output'[1], Len(PluginName) + 4,
                       Len(PluginName) + 3 + Len(message)) = message
             /\ exitCode' = status]_vars

\* C23 witness: SetState was called twice, a line was added after the
\* second call, and Done printed WARNING and the message of the state
C23_Witness ==
    /\ calls = <<"SetState", "SetState", "AddLine", "Done">>
    /\ status = WARNING /\ message = <<"n">>
    /\ output[1][Len(PluginName) + 2] = "WARNING"
    /\ output[1][Len(PluginName) + 4] = "n"
    /\ exitCode = 1

\* C23, second witness: Done called on a plugin with a performance data
\* record and no SetState call printed UNKNOWN and exited with code 3
C23_WitnessNeverSet ==
    /\ calls = <<"AddPerfData", "AddLine", "Done">>
    /\ output[1][Len(PluginName) + 2] = "UNKNOWN"
    /\ output[1][Len(PluginName) + 4] = "no status set"
    /\ exitCode = 3

====
